---- MODULE Spec2Model ----
(***************************************************************************)
(* Business & Sales Analysis dashboard (src/app.py).                       *)
(*                                                                         *)
(* The script is re-executed from top to bottom on every interaction       *)
(* (upload, removal of the file, a filter change, a button press).  One    *)
(* action of this module is one interaction: the whole pass of the script  *)
(* it triggers, an st.rerun() included.                                    *)
(*                                                                         *)
(* Representation.  A data frame is a sequence of rows, a row a function   *)
(* from column names to cells.  A timestamp (the value pd.to_datetime      *)
(* produces) is a record [day, hour]; a calendar date (the value the date  *)
(* picker returns) is a day number.  Python's None and the empty tuple are *)
(* both falsy at line 70 and are both the empty sequence here.  A name     *)
(* the pass did not bind, or a view it did not draw, is absent from the    *)
(* set "computed"; a widget it did not draw is absent from "widgets".      *)
(***************************************************************************)
EXTENDS Integers, Sequences, FiniteSets, TLC

\* Longest uploaded file, in data rows, of the aggregation model.
MaxRows == 2
\* Last calendar day the date picker offers.
MaxDay == 2

FlagKeys ==
  {"show_kpis", "show_sales_trend", "show_category_sales",
   "show_profit_dist", "show_region_sales"}

AllColumns == {"Category", "Region", "Sales", "Profit", "Order Date"}

Days == 1..MaxDay

\* Lexicographic order of the labels used, as pandas orders group keys.
LabelOrder == <<"A", "B", "East", "West">>

LabelIndex(a) == CHOOSE i \in 1..Len(LabelOrder) : LabelOrder[i] = a

LabelLT(a, b) == LabelIndex(a) < LabelIndex(b)

TsLT(a, b) == a.day < b.day \/ (a.day = b.day /\ a.hour < b.hour)

TsLE(a, b) == a = b \/ TsLT(a, b)

\* pd.to_datetime on a cell of the file: the day and the time of day.
ToDatetime(cell) == [day |-> cell[1], hour |-> cell[2]]

\* pd.to_datetime on a calendar date: midnight of that day.
DateToDatetime(d) == [day |-> d, hour |-> 0]

\* The calendar date st.date_input keeps of a timestamp default.
DateOf(ts) == ts.day

----------------------------------------------------------------------------
(* Uploaded files *)

RawRow(cat, reg, sales, profit, day, hour, empty) ==
  [cells |-> ("Category" :> cat) @@ ("Region" :> reg) @@ ("Sales" :> sales)
             @@ ("Profit" :> profit) @@ ("Order Date" :> <<day, hour>>),
   empty |-> empty]

\* The two rows of the worked example, then rows that add a time of day, a
\* tie between categories, a repeated date, and an empty Sales cell.
ExampleRows ==
  << RawRow("A", "East", 100, 10, 1, 0, {}),
     RawRow("B", "West", 200, -5, 2, 0, {}) >>

RowPool ==
  { ExampleRows[1], ExampleRows[2],
    RawRow("B", "East", 100, 10, 2, 10, {}),
    RawRow("A", "West", 200, -5, 1, 10, {}),
    RawRow("B", "West", 100, 10, 1, 0, {}),
    RawRow("A", "East", 0, 10, 2, 0, {"Sales"}) }

NoFile == [present |-> FALSE, columns |-> {}, rows |-> <<>>]

\* A file whose header is "columns": each row keeps its cells of those columns.
CsvFile(columns, rows) ==
  [present |-> TRUE,
   columns |-> columns,
   rows |-> [i \in 1..Len(rows) |->
               [cells |-> [c \in columns |-> rows[i].cells[c]],
                empty |-> rows[i].empty \cap columns]]]

RowsUpTo(n) == UNION {[1..k -> RowPool] : k \in 1..n}

HasCompleteRow(rows, columns) ==
  \E i \in 1..Len(rows) : rows[i].empty \cap columns = {}

\* Files of the aggregation model: with and without the optional column.
ViewSchemas == {AllColumns, AllColumns \ {"Order Date"}}

ViewFiles ==
  {CsvFile(c, rows) : c \in ViewSchemas,
                      rows \in {r \in RowsUpTo(MaxRows) : HasCompleteRow(r, AllColumns)}}

\* Files of the interaction model: the worked example under every schema
\* that lacks at most one column.
UploadSchemas == {AllColumns} \cup {AllColumns \ {c} : c \in AllColumns}

UploadChoices == {CsvFile(c, ExampleRows) : c \in UploadSchemas}

----------------------------------------------------------------------------
(* Load and clean: lines 41-44 *)

\* Line 42: a row with an empty cell in any column is dropped.
DropNa(rows) ==
  LET Complete(r) == r.empty = {}
  IN SelectSeq(rows, Complete)

\* Lines 43-44: the Order Date column, when there is one, becomes timestamps.
ParseRow(r) ==
  [c \in DOMAIN r.cells |->
     IF c = "Order Date" THEN ToDatetime(r.cells[c]) ELSE r.cells[c]]

LoadAndClean(file) ==
  LET kept == DropNa(file.rows)
  IN [i \in 1..Len(kept) |-> ParseRow(kept[i])]

----------------------------------------------------------------------------
(* Column helpers *)

RECURSIVE UniqueFrom(_, _, _)
UniqueFrom(df, col, acc) ==
  IF df = <<>> THEN acc
  ELSE LET v == Head(df)[col]
       IN UniqueFrom(Tail(df), col,
                     IF \E i \in 1..Len(acc) : acc[i] = v THEN acc ELSE Append(acc, v))

\* Series.unique(): the distinct values in order of first appearance.
Unique(df, col) == UniqueFrom(df, col, <<>>)

ToSet(s) == {s[i] : i \in 1..Len(s)}

MinTs(df) ==
  CHOOSE t \in ToSet(Unique(df, "Order Date")) :
    \A u \in ToSet(Unique(df, "Order Date")) : TsLE(t, u)

MaxTs(df) ==
  CHOOSE t \in ToSet(Unique(df, "Order Date")) :
    \A u \in ToSet(Unique(df, "Order Date")) : TsLE(u, t)

\* The default handed to st.date_input, as the widget stores it.
DefaultDateRange(df) == <<DateOf(MinTs(df)), DateOf(MaxTs(df))>>

----------------------------------------------------------------------------
(* Apply filters: lines 66-72 *)

ApplyFiltersSkipFirst(df, category, region, date_range) ==
  LET InSel(r) == r["Category"] \in category /\ r["Region"] \in region
      byCR == SelectSeq(df, InSel)
      InRange(r) == /\ TsLE(DateToDatetime(date_range[1]), r["Order Date"])
                    /\ TsLE(r["Order Date"], DateToDatetime(date_range[2]))
      kept == IF Len(date_range) = 2 THEN SelectSeq(byCR, InRange) ELSE byCR
  IN IF kept = <<>> THEN kept ELSE Tail(kept)

ApplyFilters(df, category, region, date_range) ==
  LET InSel(r) == r["Category"] \in category /\ r["Region"] \in region
      byCR == SelectSeq(df, InSel)
      InRange(r) == /\ TsLE(DateToDatetime(date_range[1]), r["Order Date"])
                    /\ TsLE(r["Order Date"], DateToDatetime(date_range[2]))
  IN IF Len(date_range) = 2 THEN SelectSeq(byCR, InRange) ELSE byCR

----------------------------------------------------------------------------
(* Aggregations: lines 110-112, 124, 131, 138, 145 *)

RECURSIVE SumColumn(_, _)
\* Series.sum(): zero over an empty frame.
SumColumn(df, col) ==
  IF df = <<>> THEN 0 ELSE Head(df)[col] + SumColumn(Tail(df), col)

KeyLT(col, a, b) == IF col = "Order Date" THEN TsLT(a, b) ELSE LabelLT(a, b)

RECURSIVE SortKeys(_, _)
SortKeys(S, col) ==
  IF S = {} THEN <<>>
  ELSE LET m == CHOOSE x \in S : \A y \in S \ {x} : KeyLT(col, x, y)
       IN <<m>> \o SortKeys(S \ {m}, col)

GroupEntry(key, k, total) == (key :> k) @@ ("Sales" :> total)

\* groupby(key, sort=False): groups in order of first appearance.
GroupBySumUnsorted(df, key) ==
  LET keys == Unique(df, key)
      Group(k) == LET Same(r) == r[key] = k IN SelectSeq(df, Same)
  IN [i \in 1..Len(keys) |-> GroupEntry(key, keys[i], SumColumn(Group(keys[i]), "Sales"))]

\* groupby(key)['Sales'].first(): the first row of each group, not the total.
GroupBySumFirst(df, key) ==
  LET keys == SortKeys(ToSet(Unique(df, key)), key)
      Group(k) == LET Same(r) == r[key] = k IN SelectSeq(df, Same)
  IN [i \in 1..Len(keys) |-> GroupEntry(key, keys[i], Head(Group(keys[i]))["Sales"])]

\* groupby(key)['Sales'].sum().reset_index(): one entry per distinct key,
\* keys ascending (groupby sorts its keys by default).
GroupBySum(df, key) ==
  LET keys == SortKeys(ToSet(Unique(df, key)), key)
      Group(k) == LET Same(r) == r[key] = k IN SelectSeq(df, Same)
  IN [i \in 1..Len(keys) |-> GroupEntry(key, keys[i], SumColumn(Group(keys[i]), "Sales"))]

\* sort_values(by='Sales', ascending=False) with the default kind
\* ('quicksort'), which pandas documents as not stable: every arrangement
\* with non-increasing Sales is a possible outcome.
SortValuesDescending(grouped) ==
  IF grouped = <<>> THEN {<<>>}
  ELSE LET n == Len(grouped)
           ok == {p \in Permutations(1..n) :
                    \A i \in 1..(n - 1) : grouped[p[i]]["Sales"] >= grouped[p[i + 1]]["Sales"]}
       IN {[i \in 1..n |-> grouped[p[i]]] : p \in ok}

\* The column handed to px.histogram.
ProfitColumn(df) == [i \in 1..Len(df) |-> df[i]["Profit"]]

Totals(df) ==
  [total_sales |-> SumColumn(df, "Sales"),
   total_profit |-> SumColumn(df, "Profit"),
   total_orders |-> Len(df)]

NoTotals == [total_sales |-> 0, total_profit |-> 0, total_orders |-> 0]

----------------------------------------------------------------------------
(* Errors: an exception ends the pass where it is raised *)

NoError == [type |-> "none", key |-> ""]

Raised(type, key) == [type |-> type, key |-> key]

\* The exception of a step that reads the columns "need" in this order.
StepError(prev, on, need, type, columns) ==
  IF prev # NoError \/ ~on THEN prev
  ELSE IF \E i \in 1..Len(need) : need[i] \notin columns
       THEN Raised(type,
                   need[CHOOSE i \in 1..Len(need) :
                          /\ need[i] \notin columns
                          /\ \A j \in 1..(i - 1) : need[j] \in columns])
       ELSE NoError

----------------------------------------------------------------------------
(* State *)

VARIABLES
  uploaded_file,     \* the file in the uploader, NoFile when there is none
  session_state,     \* st.session_state: the display flags
  category,          \* value of the "Select Category" multiselect
  region,            \* value of the "Select Region" multiselect
  date_range,        \* value of the date picker; <<>> for None
  widgets,           \* the input widgets the last pass drew
  filtered_df,       \* the frame of lines 66-72
  computed,          \* the names the last pass bound and the views it drew
  kpis,              \* total_sales, total_profit, total_orders
  sales_trend,       \* the frame handed to px.line
  category_sales,    \* the frame handed to px.bar
  profit_dist,       \* the Profit column handed to px.histogram
  region_sales,      \* the frame handed to px.pie
  error,             \* the exception that ended the last pass, or NoError
  clicked,           \* the button whose press started the last pass
  hidden_by_reset    \* the flags that were set when Reset All was pressed

vars ==
  <<uploaded_file, session_state, category, region, date_range, widgets,
    filtered_df, computed, kpis, sales_trend, category_sales, profit_dist,
    region_sales, error, clicked, hidden_by_reset>>

----------------------------------------------------------------------------
(* Session state: lines 31-33, 61-62, 84-100 *)

\* Lines 31-33: a key that is absent is created as False.
InitializeSessionState(ss) ==
  [k \in FlagKeys |-> IF k \in DOMAIN ss THEN ss[k] ELSE FALSE]

\* Only the cached frame is deleted; the flags are kept.
ClearSessionStateKeepFlags(ss) == ss

\* Lines 61-62: every key is deleted.
ClearSessionState(ss) == [k \in {} |-> FALSE]

SetFlagExclusive(ss, key) == [k \in DOMAIN ss |-> k = key]

\* Lines 84, 88, 92, 96, 100: one flag is set.
SetFlag(ss, key) == [ss EXCEPT ![key] = TRUE]

----------------------------------------------------------------------------
(* One pass of the script *)

\* Lines 108-147, given the frame of line 72: the views in the order the
\* script draws them, up to the first exception.
DisplayCharts(columns, fdf, ss) ==
  LET e1 == StepError(NoError, ss["show_kpis"], <<"Sales", "Profit">>, "KeyError", columns)
      e2 == StepError(e1, ss["show_sales_trend"], <<"Order Date", "Sales">>, "KeyError", columns)
      e3 == StepError(e2, ss["show_category_sales"], <<"Category", "Sales">>, "KeyError", columns)
      e4 == StepError(e3, ss["show_profit_dist"], <<"Profit">>, "ValueError", columns)
      e5 == StepError(e4, ss["show_region_sales"], <<"Region", "Sales">>, "KeyError", columns)
      Drawn(flag, e) == ss[flag] /\ e = NoError
      done == {"filtered_df"}
              \cup (IF Drawn("show_kpis", e1) THEN {"kpis"} ELSE {})
              \cup (IF Drawn("show_sales_trend", e2) THEN {"sales_trend"} ELSE {})
              \cup (IF Drawn("show_category_sales", e3) THEN {"category_sales"} ELSE {})
              \cup (IF Drawn("show_profit_dist", e4) THEN {"profit_dist"} ELSE {})
              \cup (IF Drawn("show_region_sales", e5) THEN {"region_sales"} ELSE {})
  IN { [computed |-> done,
        kpis |-> IF "kpis" \in done THEN Totals(fdf) ELSE NoTotals,
        sales_trend |-> IF "sales_trend" \in done THEN GroupBySum(fdf, "Order Date") ELSE <<>>,
        category_sales |-> cs,
        profit_dist |-> IF "profit_dist" \in done THEN ProfitColumn(fdf) ELSE <<>>,
        region_sales |-> IF "region_sales" \in done THEN GroupBySum(fdf, "Region") ELSE <<>>,
        error |-> e5] :
       cs \in IF "category_sales" \in done
              THEN SortValuesDescending(GroupBySum(fdf, "Category"))
              ELSE {<<>>} }

NothingDrawn(err) ==
  [computed |-> {}, kpis |-> NoTotals, sales_trend |-> <<>>, category_sales |-> <<>>,
   profit_dist |-> <<>>, region_sales |-> <<>>, error |-> err]

\* Lines 30-150 with the widget values cat, reg and dr, the session state ss
\* and the triggering button btn: the states the pass can end in.
Pass(file, cat, reg, dr, ss, btn, hid) ==
  LET columns == file.columns
      df == LoadAndClean(file)
      base == [uploaded_file |-> file, session_state |-> ss, clicked |-> btn,
               hidden_by_reset |-> hid]
      Inputs(c, r, d, w, f) ==
        [category |-> c, region |-> r, date_range |-> d, widgets |-> w, filtered_df |-> f]
  IN IF ~file.present
       THEN {base @@ Inputs({}, {}, <<>>, {}, <<>>) @@ NothingDrawn(NoError)}
     ELSE IF "Category" \notin columns
       THEN {base @@ Inputs({}, {}, <<>>, {}, <<>>)
                  @@ NothingDrawn(Raised("KeyError", "Category"))}
     ELSE IF "Region" \notin columns
       THEN {base @@ Inputs(cat, {}, <<>>, {"category"}, <<>>)
                  @@ NothingDrawn(Raised("KeyError", "Region"))}
     ELSE LET d == IF "Order Date" \in columns THEN dr ELSE <<>>
              w == {"category", "region", "reset", "buttons"}
                   \cup (IF "Order Date" \in columns THEN {"date_range"} ELSE {})
              fdf == ApplyFilters(df, cat, reg, d)
          IN {base @@ Inputs(cat, reg, d, w, fdf) @@ v : v \in DisplayCharts(columns, fdf, ss)}

Reached(o) ==
  /\ uploaded_file = o.uploaded_file
  /\ session_state = o.session_state
  /\ category = o.category
  /\ region = o.region
  /\ date_range = o.date_range
  /\ widgets = o.widgets
  /\ filtered_df = o.filtered_df
  /\ computed = o.computed
  /\ kpis = o.kpis
  /\ sales_trend = o.sales_trend
  /\ category_sales = o.category_sales
  /\ profit_dist = o.profit_dist
  /\ region_sales = o.region_sales
  /\ error = o.error
  /\ clicked = o.clicked
  /\ hidden_by_reset = o.hidden_by_reset

Becomes(o) ==
  /\ uploaded_file' = o.uploaded_file
  /\ session_state' = o.session_state
  /\ category' = o.category
  /\ region' = o.region
  /\ date_range' = o.date_range
  /\ widgets' = o.widgets
  /\ filtered_df' = o.filtered_df
  /\ computed' = o.computed
  /\ kpis' = o.kpis
  /\ sales_trend' = o.sales_trend
  /\ category_sales' = o.category_sales
  /\ profit_dist' = o.profit_dist
  /\ region_sales' = o.region_sales
  /\ error' = o.error
  /\ clicked' = o.clicked
  /\ hidden_by_reset' = o.hidden_by_reset

----------------------------------------------------------------------------
(* Widget values: lines 48-56 *)

CategoryOptions(file) == Unique(LoadAndClean(file), "Category")

RegionOptions(file) == Unique(LoadAndClean(file), "Region")

\* A widget drawn again with the same options and default keeps the value the
\* user gave it; one drawn with other options, or not drawn by the last pass,
\* starts from its default (line 48: every category).
CategoryValue(file) ==
  IF "Category" \notin file.columns THEN {}
  ELSE IF "category" \in widgets /\ CategoryOptions(file) = CategoryOptions(uploaded_file)
       THEN category
       ELSE ToSet(CategoryOptions(file))

RegionValue(file) ==
  IF "Region" \notin file.columns \/ "Category" \notin file.columns THEN {}
  ELSE IF "region" \in widgets /\ RegionOptions(file) = RegionOptions(uploaded_file)
       THEN region
       ELSE ToSet(RegionOptions(file))

DateRangeValue(file) ==
  IF "Order Date" \notin file.columns THEN <<>>
  ELSE IF /\ "date_range" \in widgets
          /\ DefaultDateRange(LoadAndClean(file)) = DefaultDateRange(LoadAndClean(uploaded_file))
       THEN date_range
       ELSE DefaultDateRange(LoadAndClean(file))

\* What the date picker can return: a range, or its start alone while the
\* user is still choosing the end.
DateChoices ==
  {<<s>> : s \in Days} \cup {<<p[1], p[2]>> : p \in {q \in Days \X Days : q[1] <= q[2]}}

\* What a multiselect can return: any subset of the options it was drawn with.
CategoryChoices ==
  IF "category" \in widgets THEN SUBSET ToSet(CategoryOptions(uploaded_file)) ELSE {}

RegionChoices ==
  IF "region" \in widgets THEN SUBSET ToSet(RegionOptions(uploaded_file)) ELSE {}

----------------------------------------------------------------------------
(* Interactions *)

Upload(f) ==
  \E o \in Pass(f, CategoryValue(f), RegionValue(f), DateRangeValue(f),
                InitializeSessionState(session_state), "none", {}) :
    Becomes(o)

RemoveFile ==
  /\ uploaded_file.present
  /\ \E o \in Pass(NoFile, {}, {}, <<>>, InitializeSessionState(session_state), "none", {}) :
       Becomes(o)

SelectCategory(c) ==
  /\ "category" \in widgets
  /\ \E o \in Pass(uploaded_file, c, region, date_range,
                   InitializeSessionState(session_state), "none", {}) :
       Becomes(o)

SelectRegion(r) ==
  /\ "region" \in widgets
  /\ \E o \in Pass(uploaded_file, category, r, date_range,
                   InitializeSessionState(session_state), "none", {}) :
       Becomes(o)

SelectDateRange(d) ==
  /\ "date_range" \in widgets
  /\ \E o \in Pass(uploaded_file, category, region, d,
                   InitializeSessionState(session_state), "none", {}) :
       Becomes(o)

\* Lines 83-101: the flag is set, then st.rerun() starts the pass that draws.
Show(key) ==
  /\ "buttons" \in widgets
  /\ \E o \in Pass(uploaded_file, category, region, date_range,
                   InitializeSessionState(SetFlag(InitializeSessionState(session_state), key)),
                   key, {}) :
       Becomes(o)

\* Lines 60-63: every key is deleted, then st.rerun() starts a pass whose
\* lines 31-33 create the flags again.  The filter widgets have no key in
\* st.session_state, so their values stay.
ResetAll ==
  /\ "reset" \in widgets
  /\ \E o \in Pass(uploaded_file, category, region, date_range,
                   InitializeSessionState(ClearSessionState(InitializeSessionState(session_state))),
                   "reset", {k \in FlagKeys : session_state[k]}) :
       Becomes(o)

----------------------------------------------------------------------------
(* Specifications *)

\* The dashboard as first opened: no file, every flag created False.
Init ==
  \E o \in Pass(NoFile, {}, {}, <<>>,
                InitializeSessionState(ClearSessionState(<<>>)), "none", {}) :
    Reached(o)

Next ==
  \/ \E f \in UploadChoices : Upload(f)
  \/ RemoveFile
  \/ \E c \in CategoryChoices : SelectCategory(c)
  \/ \E r \in RegionChoices : SelectRegion(r)
  \/ \E d \in DateChoices : SelectDateRange(d)
  \/ \E key \in FlagKeys : Show(key)
  \/ ResetAll

Spec == Init /\ [][Next]_vars

\* The flags of a session in which every view was asked for, or every view
\* but the one that needs the optional column.
ViewFlagChoices ==
  {[k \in FlagKeys |-> TRUE], [k \in FlagKeys |-> k # "show_sales_trend"]}

\* The uploader is empty and the flags are set: the session of a user who
\* pressed the Show buttons and then removed the file.
InitViews ==
  \E ss \in ViewFlagChoices :
    \E o \in Pass(NoFile, {}, {}, <<>>, ss, "none", {}) : Reached(o)

\* A file of the pool is put into the empty uploader.
FirstUpload(f) == ~uploaded_file.present /\ Upload(f)

NextViews ==
  \/ \E f \in ViewFiles : FirstUpload(f)
  \/ \E c \in CategoryChoices : SelectCategory(c)
  \/ \E r \in RegionChoices : SelectRegion(r)
  \/ \E d \in DateChoices : SelectDateRange(d)

SpecViews == InitViews /\ [][NextViews]_vars

----------------------------------------------------------------------------
(* Properties *)

CleanedDataset == LoadAndClean(uploaded_file)

RequiredColumns == {"Category", "Region", "Sales", "Profit"}

Views == {"kpis", "sales_trend", "category_sales", "profit_dist", "region_sales"}

ViewOf(key) ==
  CASE key = "show_kpis" -> "kpis"
    [] key = "show_sales_trend" -> "sales_trend"
    [] key = "show_category_sales" -> "category_sales"
    [] key = "show_profit_dist" -> "profit_dist"
    [] key = "show_region_sales" -> "region_sales"

AllHidden == \A k \in FlagKeys : session_state[k] = FALSE

\* The row test of the filter as the data model states it: the date range
\* bounds the calendar day of the row, both ends included.
Qualifies(r) ==
  /\ r["Category"] \in category
  /\ r["Region"] \in region
  /\ (Len(date_range) = 2 /\ "Order Date" \in uploaded_file.columns)
       => /\ date_range[1] <= DateOf(r["Order Date"])
          /\ DateOf(r["Order Date"]) <= date_range[2]

\* C1: the filtered dataset is exactly the rows of the cleaned dataset, in
\* their order, whose Category and Region are selected and, when a range is
\* set and the dataset has dates, whose Order Date lies on a day from the
\* start day to the end day, a row dated on the end day included.
C1_FilterKeepsExactlyQualifyingRows ==
  "filtered_df" \in computed => filtered_df = SelectSeq(CleanedDataset, Qualifies)

\* C2: with every category and every region selected and the date picker
\* left at its default, the filtered dataset is the cleaned dataset itself.
C2_IdentityUnderDefaults ==
  ( /\ "filtered_df" \in computed
    /\ category = ToSet(CategoryOptions(uploaded_file))
    /\ region = ToSet(RegionOptions(uploaded_file))
    /\ date_range = IF "Order Date" \in uploaded_file.columns
                    THEN DefaultDateRange(CleanedDataset) ELSE <<>> )
  => filtered_df = CleanedDataset

\* C3: filtering the filtered dataset again with the same selection changes
\* nothing.
C3_FilterIdempotent ==
  "filtered_df" \in computed
  => ApplyFilters(filtered_df, category, region, date_range) = filtered_df

\* A range the user narrowed is in force and removed some rows but not all.
C3_Witness ==
  /\ "filtered_df" \in computed
  /\ Len(date_range) = 2
  /\ date_range # DefaultDateRange(CleanedDataset)
  /\ filtered_df # <<>>
  /\ Len(filtered_df) < Len(CleanedDataset)

\* C4: with an empty category or region selection, over a dataset that has
\* the four required columns, the pass ends without an exception, the
\* filtered dataset is empty, and every view asked for is drawn from it:
\* totals of zero and empty series.
C4_EmptySelectionViewsEmpty ==
  ( /\ uploaded_file.present
    /\ RequiredColumns \subseteq uploaded_file.columns
    /\ (category = {} \/ region = {}) )
  => /\ error = NoError
     /\ "filtered_df" \in computed /\ filtered_df = <<>>
     /\ \A k \in FlagKeys : session_state[k] => ViewOf(k) \in computed
     /\ kpis = NoTotals
     /\ sales_trend = <<>> /\ category_sales = <<>>
     /\ profit_dist = <<>> /\ region_sales = <<>>

\* C5: the Sales of the Category Breakdown's entries add up to Totals.Sales
\* of the same pass, which is the sum of the filtered dataset's Sales column.
C5_BreakdownSumsToTotal ==
  {"kpis", "category_sales"} \subseteq computed
  => /\ SumColumn(category_sales, "Sales") = kpis.total_sales
     /\ kpis.total_sales = SumColumn(filtered_df, "Sales")

\* Both categories are present and their Sales differ from zero.
C5_Witness ==
  /\ {"kpis", "category_sales"} \subseteq computed
  /\ Len(category_sales) = 2
  /\ \A i \in 1..2 : category_sales[i]["Sales"] > 0

\* C6: the Category Breakdown has one entry per distinct category of the
\* filtered dataset, in descending order of summed Sales, categories with
\* equal sums in label order.
C6_BreakdownStableDescending ==
  "category_sales" \in computed
  => /\ {category_sales[i]["Category"] : i \in 1..Len(category_sales)}
          = {filtered_df[i]["Category"] : i \in 1..Len(filtered_df)}
     /\ \A i, j \in 1..Len(category_sales) :
          i < j => \/ category_sales[i]["Sales"] > category_sales[j]["Sales"]
                   \/ /\ category_sales[i]["Sales"] = category_sales[j]["Sales"]
                      /\ LabelLT(category_sales[i]["Category"], category_sales[j]["Category"])

RECURSIVE SalesOn(_, _, _)
\* The Sales of the first n rows of df that carry the timestamp t.
SalesOn(df, t, n) ==
  IF n = 0 THEN 0
  ELSE SalesOn(df, t, n - 1) + (IF df[n]["Order Date"] = t THEN df[n]["Sales"] ELSE 0)

\* C7: the Time Series has exactly one entry per distinct Order Date of the
\* filtered dataset, carrying the sum of Sales of the rows with that date,
\* in strictly ascending order of date; no other date has an entry.
C7_TimeSeriesPerDateAscending ==
  "sales_trend" \in computed
  => /\ \A i, j \in 1..Len(sales_trend) :
          i < j => TsLT(sales_trend[i]["Order Date"], sales_trend[j]["Order Date"])
     /\ {sales_trend[i]["Order Date"] : i \in 1..Len(sales_trend)}
          = {filtered_df[i]["Order Date"] : i \in 1..Len(filtered_df)}
     /\ \A i \in 1..Len(sales_trend) :
          sales_trend[i]["Sales"]
            = SalesOn(filtered_df, sales_trend[i]["Order Date"], Len(filtered_df))

\* Two dates, the later one first in the file.
C7_Witness ==
  /\ "sales_trend" \in computed
  /\ Len(sales_trend) = 2
  /\ Len(filtered_df) = 2
  /\ TsLT(filtered_df[2]["Order Date"], filtered_df[1]["Order Date"])

\* C8: the pass that follows a press of Reset All ends with the five flags
\* False and neither the metrics panel nor a chart drawn, and the flags stay
\* False until a Show button is pressed.
C8_ResetHidesEveryView ==
  /\ [](clicked = "reset" => AllHidden /\ computed \cap Views = {})
  /\ [][(AllHidden /\ clicked' \notin FlagKeys) => AllHidden']_vars

\* Reset All was pressed while all five views were shown.
C8_Witness ==
  /\ clicked = "reset"
  /\ hidden_by_reset = FlagKeys
  /\ AllHidden

\* C9: a file that lacks one of the required columns is rejected: the pass
\* ends in an error, produces no filtered dataset and computes no totals,
\* category or region breakdown, or profit distribution.
C9_MissingColumnRejected ==
  ( /\ uploaded_file.present
    /\ ~(RequiredColumns \subseteq uploaded_file.columns) )
  => /\ error # NoError
     /\ "filtered_df" \notin computed
     /\ computed \cap {"kpis", "category_sales", "region_sales", "profit_dist"} = {}

\* C10: a press of a Show button sets that button's flag and changes no
\* other, and no interaction but Reset All turns a set flag off.
C10_FlagsMonotoneBetweenResets ==
  [][ /\ clicked' # "reset"
        => \A k \in FlagKeys : session_state[k] => session_state'[k]
      /\ clicked' \in FlagKeys
        => session_state' = [session_state EXCEPT ![clicked'] = TRUE] ]_vars

\* The file was removed and all five flags, each set by its own press, are
\* still set.
C10_Witness ==
  /\ ~uploaded_file.present
  /\ clicked = "none"
  /\ \A k \in FlagKeys : session_state[k]

====
